---- MODULE Spec2Model ----
(***************************************************************************)
(* Model of the admin2 -> admin1 raking job of malaria_dengv:              *)
(*   src/src/malaria_dengv/raking/raking_child.py    (one raking run)      *)
(*   src/src/malaria_dengv/raking/raking_launcher.py (the task generator)  *)
(*                                                                         *)
(* A dataset (xarray.Dataset) is a record                                  *)
(*   [ids, ages, sexes, val]                                               *)
(* ids/ages/sexes are the label sets of the location_id, age_group_id and  *)
(* sex_id axes; val maps <<id, age, sex>> to the `value` variable.  The    *)
(* draw and scenario axes hold one label each (raking_child.py:125, 176,   *)
(* 179) and are left out of the key.  All xarray operations used by the    *)
(* program are label based, so the axis order is not part of the state.    *)
(* Raked values are rationals <<num, den>>; <<0, 0>> stands for NaN.       *)
(***************************************************************************)
EXTENDS Integers, FiniteSets, Sequences, TLC

\* ---------------------------------------------------------------- bounds
MaxFineRows == 2
MaxReconcileRows == 3
MaxPasses == 2
MaxDraw == 1
MaxExisting == 1

\* labels and values of the input tables
Ages == {1, 2}
Sexes == {1, 2}
LabelShapes == {<<{1}, {1}>>, <<{1, 2}, {1}>>, <<{1}, {1, 2}>>}
FineVals == {0, 1}
CoarseVals == {0, 3}
ReconcileVals == {0, 1, 2}

\* entity ids used for the inputs: coarse (admin1) ids, fine (admin2) ids
CoarseIds == {1, 2}
PlainFineIds == {11, 12, 13}

\* ------------------------------------------------------ dataset helpers
NoDs == [ids |-> {}, ages |-> {}, sexes |-> {}, val |-> <<>>]

Keys(I, A, S) == I \X A \X S

MakeDs(I, A, S, v) == [ids |-> I, ages |-> A, sexes |-> S, val |-> v]

\* the id sets of the input tables: at most maxRows ids of `universe`
IdSets(universe, maxRows) == {J \in SUBSET universe : Cardinality(J) <= maxRows}

\* ds.sel(location_id=I, age_group_id=A, sex_id=S) for labels that exist
Sel(ds, I, A, S) ==
  [ds EXCEPT !.ids = I, !.ages = A, !.sexes = S,
             !.val = [k \in Keys(I, A, S) |-> ds.val[k]]]

RECURSIVE SumOver(_, _)
SumOver(S, f) ==
  IF S = {} THEN 0
  ELSE LET x == CHOOSE y \in S : TRUE IN f[x] + SumOver(S \ {x}, f)

\* ------------------------------------------------- Key Reconciliation
\* IMPUTE_MAP: the keys in dict order, and the value of each key
IMPUTE_MAP_KEYS == <<60908, 95069, 94364>>
IMPUTE_MAP(old_id) == 44858

OldIds == {IMPUTE_MAP_KEYS[i] : i \in 1..Len(IMPUTE_MAP_KEYS)}

\* faulty variant: the old_id row is not dropped after its values were added
ImputeOneNoDrop(ds, old_id, new_id) ==
  IF old_id \notin ds.ids THEN ds
  ELSE IF new_id \in ds.ids
       THEN [ds EXCEPT !.val = [k \in DOMAIN ds.val |->
                          IF k[1] = new_id
                          THEN ds.val[k] + ds.val[<<old_id, k[2], k[3]>>]
                          ELSE ds.val[k]]]
       ELSE LET I == (ds.ids \ {old_id}) \cup {new_id}
            IN MakeDs(I, ds.ages, ds.sexes,
                      [k \in Keys(I, ds.ages, ds.sexes) |->
                          IF k[1] = new_id THEN ds.val[<<old_id, k[2], k[3]>>]
                          ELSE ds.val[k]])

\* faulty variant: old_id's values overwrite new_id's instead of being added
ImputeOneOverwrite(ds, old_id, new_id) ==
  IF old_id \notin ds.ids THEN ds
  ELSE LET I == (ds.ids \ {old_id}) \cup {new_id}
       IN MakeDs(I, ds.ages, ds.sexes,
                 [k \in Keys(I, ds.ages, ds.sexes) |->
                     IF k[1] = new_id THEN ds.val[<<old_id, k[2], k[3]>>]
                     ELSE ds.val[k]])

\* one iteration of the loop over IMPUTE_MAP.items()
ImputeOne(ds, old_id, new_id) ==
  IF old_id \notin ds.ids THEN ds
  ELSE IF new_id \in ds.ids
       THEN \* value.loc[new_id] += value.loc[old_id]; then drop_sel(old_id)
            LET I == ds.ids \ {old_id}
            IN MakeDs(I, ds.ages, ds.sexes,
                      [k \in Keys(I, ds.ages, ds.sexes) |->
                          IF k[1] = new_id
                          THEN ds.val[k] + ds.val[<<old_id, k[2], k[3]>>]
                          ELSE ds.val[k]])
       ELSE \* assign_coords: the old_id label becomes new_id; nothing to drop
            LET I == (ds.ids \ {old_id}) \cup {new_id}
            IN MakeDs(I, ds.ages, ds.sexes,
                      [k \in Keys(I, ds.ages, ds.sexes) |->
                          IF k[1] = new_id THEN ds.val[<<old_id, k[2], k[3]>>]
                          ELSE ds.val[k]])

\* the loop, over the IMPUTE_MAP keys taken in the order `order`
RECURSIVE ImputeInOrder(_, _)
ImputeInOrder(ds, order) ==
  IF order = <<>> THEN ds
  ELSE ImputeInOrder(ImputeOne(ds, Head(order), IMPUTE_MAP(Head(order))),
                     Tail(order))

impute_location_ids(ds) == ImputeInOrder(ds, IMPUTE_MAP_KEYS)

\* ------------------------------------------------------- configuration
CAUSES == {"malaria", "dengue"}
SCENARIOS == {0, 75, 76}
MEASURES == {"death", "incidence", "yll", "yld"}

\* get_forcasted_ds: CAUSE_MAP, and the keys of scenario_and_measure_map
CAUSE_MAP == [c \in CAUSES |-> IF c = "malaria" THEN "malaria.nc" ELSE "ntd_dengue.nc"]
scenario_and_measure_map == SCENARIOS \X MEASURES

SCENARIO_MAP ==
  [s \in SCENARIOS |-> CASE s = 0 -> "ssp245" [] s = 75 -> "ssp126" [] s = 76 -> "ssp585"]

\* arguments a run may be started with (argparse accepts any str / int)
ArgCauses == CAUSES \cup {"zika"}
ArgScenarios == SCENARIOS \cup {1}
ArgMeasures == MEASURES \cup {"prevalence"}
AllArgs == [cause : ArgCauses, scenario : ArgScenarios, measure : ArgMeasures, draw : {0}]
DefaultArgs == [cause |-> "malaria", scenario |-> 0, measure |-> "death", draw |-> 0]

ValidConfig(a) ==
  /\ <<a.scenario, a.measure>> \in scenario_and_measure_map
  /\ a.cause \in CAUSES

\* ----------------------------------------------------------- the inputs
\* the hierarchy file: id -> [level, parent_id]; admin2 units are level 5
HierarchyA ==
  [i \in {1, 2, 11, 12, 13, 44858} |->
     CASE i \in {1, 2}    -> [level |-> 4, parent_id |-> 0]
       [] i \in {11, 12}  -> [level |-> 5, parent_id |-> 1]
       [] OTHER           -> [level |-> 5, parent_id |-> 2]]

HierarchyB ==
  [i \in {1, 2, 11, 12, 13, 44858} |->
     CASE i \in {1, 2}    -> [level |-> 4, parent_id |-> 0]
       [] i = 11          -> [level |-> 5, parent_id |-> 1]
       [] i = 12          -> [level |-> 5, parent_id |-> 2]
       [] i = 13          -> [level |-> 6, parent_id |-> 12]
       [] OTHER           -> [level |-> 5, parent_id |-> 2]]

Hierarchies == {HierarchyA, HierarchyB}

FineInputIds == PlainFineIds \cup {60908}

\* the worked scenario: P1 = 100, children 30 and 20, and an orphan of value 5
ExampleForecast == MakeDs({1}, {1}, {1}, [k \in Keys({1}, {1}, {1}) |-> 100])
ExamplePrediction ==
  MakeDs({11, 12, 13}, {1}, {1},
         [k \in Keys({11, 12, 13}, {1}, {1}) |->
            CASE k[1] = 11 -> 30 [] k[1] = 12 -> 20 [] OTHER -> 5])

\* the worked scenario with one more coarse entity, 3, that has no children
ChildlessForecast ==
  MakeDs({1, 3}, {1}, {1},
         [k \in Keys({1, 3}, {1}, {1}) |-> IF k[1] = 1 THEN 100 ELSE 7])

InputFiles == {"forecast", "predicted_dir", "predicted_file", "hierarchy"}

\* ------------------------------------------------------------ rationals
NaN == <<0, 0>>
One == <<1, 1>>
Rat(n) == <<n, 1>>
IsNaN(x) == x[2] = 0
RatEq(x, y) == ~IsNaN(x) /\ ~IsNaN(y) /\ x[1] * y[2] = y[1] * x[2]
RatAdd(x, y) == IF IsNaN(x) \/ IsNaN(y) THEN NaN ELSE <<x[1] * y[2] + y[1] * x[2], x[2] * y[2]>>
RatMul(x, y) == IF IsNaN(x) \/ IsNaN(y) THEN NaN ELSE <<x[1] * y[1], x[2] * y[2]>>

RECURSIVE RatSumOver(_, _)
RatSumOver(S, f) ==
  IF S = {} THEN Rat(0)
  ELSE LET x == CHOOSE y \in S : TRUE IN RatAdd(f[x], RatSumOver(S \ {x}, f))

\* ------------------------------------------------ the raking pipeline
ADMIN2_LEVEL == 5

\* load_in_hierarchy_dataset: the rows of level 5, with their parent_id
load_in_hierarchy_dataset(file) ==
  LET I == {i \in DOMAIN file : file[i].level = ADMIN2_LEVEL}
  IN [ids |-> I, parent_id |-> [i \in I |-> file[i].parent_id]]

\* coarse labels that also occur in the fine dataset; the fine dataset is
\* not touched
subset_admin1_to_admin2_dims(ds_admin1, ds_admin2) ==
  LET age_ids == {a \in ds_admin1.ages : a \in ds_admin2.ages}
      sex_ids == {s \in ds_admin1.sexes : s \in ds_admin2.sexes}
  IN Sel(ds_admin1, ds_admin1.ids, age_ids, sex_ids)

subset_ds_to_admin2_locations(hierarchy_ds, ds) ==
  LET common_ids == hierarchy_ds.ids \cap ds.ids
  IN Sel(ds, common_ids, ds.ages, ds.sexes)

\* xr.merge of the dataset and the hierarchy rows of the common ids: the
\* result carries parent_id beside value
attach_hierarchy(ds, hierarchy_ds) ==
  LET common_ids == ds.ids \cap hierarchy_ds.ids
      sub == Sel(ds, common_ids, ds.ages, ds.sexes)
  IN [ids |-> sub.ids, ages |-> sub.ages, sexes |-> sub.sexes, val |-> sub.val,
      parent_id |-> [i \in common_ids |-> hierarchy_ds.parent_id[i]]]

\* ds.where(mask, drop=True) along location_id, for a dataset with parent_id
WhereIds(ds, I) ==
  [ids |-> I, ages |-> ds.ages, sexes |-> ds.sexes,
   val |-> [k \in Keys(I, ds.ages, ds.sexes) |-> ds.val[k]],
   parent_id |-> [i \in I |-> ds.parent_id[i]]]

ParentIds(ds) == {ds.parent_id[i] : i \in ds.ids}

\* faulty variant: the second partition is selected with the same mask
split_ds_admin2_same_mask(ds_admin2, ds_admin1) ==
  LET common_ids == ParentIds(ds_admin2) \cap ds_admin1.ids
      mask == {i \in ds_admin2.ids : ds_admin2.parent_id[i] \in common_ids}
  IN <<WhereIds(ds_admin2, mask), WhereIds(ds_admin2, mask)>>

\* <<ds_admin2_with_parent, ds_admin2_without_parent>>
split_ds_admin2(ds_admin2, ds_admin1) ==
  LET common_ids == ParentIds(ds_admin2) \cap ds_admin1.ids
      mask == {i \in ds_admin2.ids : ds_admin2.parent_id[i] \in common_ids}
  IN <<WhereIds(ds_admin2, mask), WhereIds(ds_admin2, ds_admin2.ids \ mask)>>

\* faulty variant: the coarse table is not restricted to the parents present
split_ds_admin1_unrestricted(ds_admin2, ds_admin1) ==
  <<ds_admin1, Sel(ds_admin1, {}, ds_admin1.ages, ds_admin1.sexes)>>

\* <<ds_admin1_with_parent_id, ds_admin1_without_parent_id>>
split_ds_admin1(ds_admin2, ds_admin1) ==
  LET common_ids == ParentIds(ds_admin2) \cap ds_admin1.ids
      remaining_ids == ds_admin1.ids \ common_ids
  IN <<Sel(ds_admin1, common_ids, ds_admin1.ages, ds_admin1.sexes),
       Sel(ds_admin1, remaining_ids, ds_admin1.ages, ds_admin1.sexes)>>

\* groupby("parent_id").sum(dim="location_id"), renamed to location_id and
\* reindexed to admin1_ids: NaN where a coarse id has no group
admin2_sums_aligned(ds_admin2, admin1_ids) ==
  [k \in Keys(admin1_ids, ds_admin2.ages, ds_admin2.sexes) |->
     IF k[1] \in ParentIds(ds_admin2)
     THEN Rat(SumOver({i \in ds_admin2.ids : ds_admin2.parent_id[i] = k[1]},
                      [i \in ds_admin2.ids |-> ds_admin2.val[<<i, k[2], k[3]>>]]))
     ELSE NaN]

\* faulty variant: the ratio is taken the wrong way round
FactorInverted(agg, admin1_value) ==
  IF (~IsNaN(agg) /\ agg[1] = 0) \/ admin1_value = 0 THEN One
  ELSE IF IsNaN(agg) THEN NaN
  ELSE <<agg[1], admin1_value>>

\* faulty variant: only the zero aggregate is guarded
FactorGuardsAggregateOnly(agg, admin1_value) ==
  IF ~IsNaN(agg) /\ agg[1] = 0 THEN One
  ELSE IF IsNaN(agg) THEN NaN
  ELSE <<admin1_value, agg[1]>>

\* xr.where((agg == 0) | (admin1 == 0), 1.0, admin1 / xr.where(agg == 0, 1, agg))
Factor(agg, admin1_value) ==
  IF (~IsNaN(agg) /\ agg[1] = 0) \/ admin1_value = 0 THEN One
  ELSE IF IsNaN(agg) THEN NaN
  ELSE <<admin1_value, agg[1]>>

\* the factor lives on the labels both operands have (xarray's inner join)
sum_and_align_admin2_totals(ds_admin2, ds_admin1) ==
  LET A == ds_admin1.ages \cap ds_admin2.ages
      S == ds_admin1.sexes \cap ds_admin2.sexes
      agg == admin2_sums_aligned(ds_admin2, ds_admin1.ids)
  IN MakeDs(ds_admin1.ids, A, S,
            [k \in Keys(ds_admin1.ids, A, S) |-> Factor(agg[k], ds_admin1.val[k])])

\* factor.sel(parent_id=ds_admin2["parent_id"]) times value, on the labels
\* both operands have
broadcast_factor_to_admin2(ds_admin2, factor_ds) ==
  LET A == ds_admin2.ages \cap factor_ds.ages
      S == ds_admin2.sexes \cap factor_ds.sexes
  IN MakeDs(ds_admin2.ids, A, S,
            [k \in Keys(ds_admin2.ids, A, S) |->
               RatMul(Rat(ds_admin2.val[k]),
                      factor_ds.val[<<ds_admin2.parent_id[k[1]], k[2], k[3]>>])])

\* ds[value_var] = raked_values: the new variable is reindexed to the labels
\* of the dataset, NaN where raked_values has none
build_raked_dataset(ds_admin2, raked) ==
  [ds_admin2 EXCEPT !.val =
     [k \in Keys(ds_admin2.ids, ds_admin2.ages, ds_admin2.sexes) |->
        IF k \in DOMAIN raked.val THEN raked.val[k] ELSE NaN]]

\* faulty variant: the partition without parent is left out
merge_raked_only(raked_ds, ds_admin2_without_parent) ==
  raked_ds

\* xr.concat along location_id
merge_raked_and_unraked_admin2_dask(raked_ds, ds_admin2_without_parent) ==
  LET I == raked_ds.ids \cup ds_admin2_without_parent.ids
  IN [ids |-> I, ages |-> raked_ds.ages, sexes |-> raked_ds.sexes,
      val |-> [k \in Keys(I, raked_ds.ages, raked_ds.sexes) |->
                 IF k[1] \in raked_ds.ids THEN raked_ds.val[k]
                 ELSE Rat(ds_admin2_without_parent.val[k])],
      parent_id |-> [i \in I |->
                 IF i \in raked_ds.ids THEN raked_ds.parent_id[i]
                 ELSE ds_admin2_without_parent.parent_id[i]]]

\* only `value` is kept
drop_data_variables(ds) == MakeDs(ds.ids, ds.ages, ds.sexes, ds.val)

\* ------------------------------------------------------------- state
VARIABLES
  pc,                       \* position of the run in main_raking_function
  args,                     \* --cause --scenario --measure --draw
  disk,                     \* the input files: forecast, predicted, hierarchy
  missing,                  \* the input files that do not exist
  io,                       \* file-system calls made so far by the run
  outfile,                  \* the run's output file: absent, partial, complete
  ds_admin1, ds_admin2, hierarchy,
  ds_admin2_with_parent, ds_admin2_without_parent, ds_admin1_with_parent,
  factor, raked_values, ds_admin2_raked, merged_ds,
  kr,                       \* Key Reconciliation applied repeatedly to a table
  launcher,                 \* raking_launcher.py: loop position, tasks, workflow
  cluster                   \* runs of raking_child.py executing side by side

runVars == <<pc, args, disk, missing, io, outfile, ds_admin1, ds_admin2, hierarchy,
             ds_admin2_with_parent, ds_admin2_without_parent, ds_admin1_with_parent,
             factor, raked_values, ds_admin2_raked, merged_ds>>
vars == <<runVars, kr, launcher, cluster>>

dataVars == <<ds_admin1, ds_admin2, hierarchy,
              ds_admin2_with_parent, ds_admin2_without_parent, ds_admin1_with_parent,
              factor, raked_values, ds_admin2_raked, merged_ds>>
envVars == <<args, disk, missing>>

NoKr == [input |-> NoDs, prev |-> NoDs, cur |-> NoDs, passes |-> 0]
NoLauncher == [phase |-> "off", existing |-> {}, next |-> <<>>, tasks |-> <<>>,
               added |-> <<>>, bound |-> FALSE, submitted |-> {}]
NoCluster == [combo |-> <<>>, pc |-> <<>>, dirs |-> {}, files |-> <<>>, log |-> {}]

RunStart ==
  /\ pc = "start"
  /\ io = {}
  /\ outfile = "absent"
  /\ ds_admin1 = NoDs /\ ds_admin2 = NoDs /\ hierarchy = NoDs
  /\ ds_admin2_with_parent = NoDs /\ ds_admin2_without_parent = NoDs
  /\ ds_admin1_with_parent = NoDs
  /\ factor = NoDs /\ raked_values = NoDs /\ ds_admin2_raked = NoDs /\ merged_ds = NoDs

\* a run: either any arguments and any missing input over the worked
\* scenario, or the default arguments over every input table, or the default
\* arguments over the worked scenario with a childless coarse entity
Init ==
  /\ RunStart
  /\ kr = NoKr
  /\ launcher = NoLauncher
  /\ cluster = NoCluster
  /\ \/ /\ args \in AllArgs
        /\ missing \in {{}} \cup {{f} : f \in InputFiles}
        /\ disk = [forecast |-> ExampleForecast, predicted |-> ExamplePrediction,
                   hierarchy |-> HierarchyA]
     \/ /\ args = DefaultArgs
        /\ missing = {}
        /\ \E I1 \in SUBSET CoarseIds : \E I2 \in IdSets(FineInputIds, MaxFineRows) :
             \E sh1 \in LabelShapes : \E sh2 \in LabelShapes :
               \E v1 \in [Keys(I1, sh1[1], sh1[2]) -> CoarseVals] :
                 \E v2 \in [Keys(I2, sh2[1], sh2[2]) -> FineVals] :
                   \E h \in Hierarchies :
                     disk = [forecast |-> MakeDs(I1, sh1[1], sh1[2], v1),
                             predicted |-> MakeDs(I2, sh2[1], sh2[2], v2),
                             hierarchy |-> h]
     \/ /\ args = DefaultArgs
        /\ missing = {}
        /\ disk = [forecast |-> ChildlessForecast, predicted |-> ExamplePrediction,
                   hierarchy |-> HierarchyA]

\* ---------------------------------------------------- loading the inputs
\* faulty variant: an unknown combination or cause falls back to a default
get_forcasted_ds_outcome_default(cause, scenario, measure, exists) ==
  IF ~exists THEN <<"FileNotFoundError", {"forecast_exists"}>>
  ELSE <<"ok", {"forecast_exists", "forecast_open"}>>

\* <<outcome, file-system calls made>> of get_forcasted_ds
get_forcasted_ds_outcome(cause, scenario, measure, exists) ==
  IF <<scenario, measure>> \notin scenario_and_measure_map THEN <<"ValueError", {}>>
  ELSE IF cause \notin DOMAIN CAUSE_MAP THEN <<"KeyError", {}>>
  ELSE IF ~exists THEN <<"FileNotFoundError", {"forecast_exists"}>>
  ELSE <<"ok", {"forecast_exists", "forecast_open"}>>

\* get_predicted_ds: MEASURE_MAP
PREDICTED_MEASURE_MAP ==
  [m \in MEASURES |-> IF m \in {"death", "yll"} THEN "mortality" ELSE "incidence"]

\* <<outcome, file-system calls made>> of get_predicted_ds
get_predicted_ds_outcome(cause, scenario, measure, dir_exists, file_exists) ==
  IF scenario \notin DOMAIN SCENARIO_MAP THEN <<"KeyError", {}>>
  ELSE IF measure \notin DOMAIN PREDICTED_MEASURE_MAP THEN <<"KeyError", {}>>
  ELSE IF cause \notin CAUSES THEN <<"UnboundLocalError", {}>>
  ELSE IF ~dir_exists THEN <<"FileNotFoundError", {"predicted_dir_exists"}>>
  ELSE IF ~file_exists THEN <<"FileNotFoundError", {"predicted_dir_exists", "predicted_open"}>>
  ELSE <<"ok", {"predicted_dir_exists", "predicted_open"}>>

GetForcastedDs ==
  /\ pc = "start"
  /\ LET r == get_forcasted_ds_outcome(args.cause, args.scenario, args.measure,
                                       "forecast" \notin missing)
     IN /\ io' = io \cup r[2]
        /\ IF r[1] = "ok"
           THEN pc' = "forecast" /\ ds_admin1' = disk.forecast
           ELSE pc' = "error" /\ ds_admin1' = ds_admin1
  /\ UNCHANGED <<envVars, outfile, ds_admin2, hierarchy, ds_admin2_with_parent,
                 ds_admin2_without_parent, ds_admin1_with_parent, factor,
                 raked_values, ds_admin2_raked, merged_ds, kr, launcher, cluster>>

GetPredictedDs ==
  /\ pc = "forecast"
  /\ LET r == get_predicted_ds_outcome(args.cause, args.scenario, args.measure,
                                       "predicted_dir" \notin missing,
                                       "predicted_file" \notin missing)
     IN /\ io' = io \cup r[2]
        /\ IF r[1] = "ok"
           THEN pc' = "predicted" /\ ds_admin2' = disk.predicted
           ELSE pc' = "error" /\ ds_admin2' = ds_admin2
  /\ UNCHANGED <<envVars, outfile, ds_admin1, hierarchy, ds_admin2_with_parent,
                 ds_admin2_without_parent, ds_admin1_with_parent, factor,
                 raked_values, ds_admin2_raked, merged_ds, kr, launcher, cluster>>

\* ds_admin2 = impute_location_ids(ds_admin2); the transpose that follows
\* changes the axis order only
ImputeLocationIds ==
  /\ pc = "predicted"
  /\ ds_admin2' = impute_location_ids(ds_admin2)
  /\ pc' = "imputed"
  /\ UNCHANGED <<envVars, io, outfile, ds_admin1, hierarchy, ds_admin2_with_parent,
                 ds_admin2_without_parent, ds_admin1_with_parent, factor,
                 raked_values, ds_admin2_raked, merged_ds, kr, launcher, cluster>>

LoadInHierarchyDataset ==
  /\ pc = "imputed"
  /\ io' = io \cup {"hierarchy_open"}
  /\ IF "hierarchy" \in missing
     THEN pc' = "error" /\ hierarchy' = hierarchy
     ELSE pc' = "hierarchy" /\ hierarchy' = load_in_hierarchy_dataset(disk.hierarchy)
  /\ UNCHANGED <<envVars, outfile, ds_admin1, ds_admin2, ds_admin2_with_parent,
                 ds_admin2_without_parent, ds_admin1_with_parent, factor,
                 raked_values, ds_admin2_raked, merged_ds, kr, launcher, cluster>>

\* ------------------------------------------------- steps 2 to 10
SubsetAdmin1ToAdmin2Dims ==
  /\ pc = "hierarchy"
  /\ ds_admin1' = subset_admin1_to_admin2_dims(ds_admin1, ds_admin2)
  /\ pc' = "step2"
  /\ UNCHANGED <<envVars, io, outfile, ds_admin2, hierarchy, ds_admin2_with_parent,
                 ds_admin2_without_parent, ds_admin1_with_parent, factor,
                 raked_values, ds_admin2_raked, merged_ds, kr, launcher, cluster>>

SubsetDsToAdmin2Locations ==
  /\ pc = "step2"
  /\ ds_admin2' = subset_ds_to_admin2_locations(hierarchy, ds_admin2)
  /\ pc' = "step3"
  /\ UNCHANGED <<envVars, io, outfile, ds_admin1, hierarchy, ds_admin2_with_parent,
                 ds_admin2_without_parent, ds_admin1_with_parent, factor,
                 raked_values, ds_admin2_raked, merged_ds, kr, launcher, cluster>>

AttachHierarchy ==
  /\ pc = "step3"
  /\ ds_admin2' = attach_hierarchy(ds_admin2, hierarchy)
  /\ pc' = "step4"
  /\ UNCHANGED <<envVars, io, outfile, ds_admin1, hierarchy, ds_admin2_with_parent,
                 ds_admin2_without_parent, ds_admin1_with_parent, factor,
                 raked_values, ds_admin2_raked, merged_ds, kr, launcher, cluster>>

SplitDatasets ==
  /\ pc = "step4"
  /\ ds_admin2_with_parent' = split_ds_admin2(ds_admin2, ds_admin1)[1]
  /\ ds_admin2_without_parent' = split_ds_admin2(ds_admin2, ds_admin1)[2]
  /\ ds_admin1_with_parent' = split_ds_admin1(ds_admin2, ds_admin1)[1]
  /\ pc' = "step5"
  /\ UNCHANGED <<envVars, io, outfile, ds_admin1, ds_admin2, hierarchy, factor,
                 raked_values, ds_admin2_raked, merged_ds, kr, launcher, cluster>>

\* groupby over an empty parent_id raises in some xarray releases ("must
\* not be empty") and yields an empty result in others: both are allowed
SumAndAlignAdmin2Totals ==
  /\ pc = "step5"
  /\ \E raises \in IF ds_admin2_with_parent.ids = {} THEN BOOLEAN ELSE {FALSE} :
       IF raises
       THEN pc' = "error" /\ factor' = factor
       ELSE /\ pc' = "step6"
            /\ factor' = sum_and_align_admin2_totals(ds_admin2_with_parent,
                                                     ds_admin1_with_parent)
  /\ UNCHANGED <<envVars, io, outfile, ds_admin1, ds_admin2, hierarchy,
                 ds_admin2_with_parent, ds_admin2_without_parent,
                 ds_admin1_with_parent, raked_values, ds_admin2_raked, merged_ds,
                 kr, launcher, cluster>>

BroadcastFactorToAdmin2 ==
  /\ pc = "step6"
  /\ raked_values' = broadcast_factor_to_admin2(ds_admin2_with_parent, factor)
  /\ pc' = "step7"
  /\ UNCHANGED <<envVars, io, outfile, ds_admin1, ds_admin2, hierarchy,
                 ds_admin2_with_parent, ds_admin2_without_parent,
                 ds_admin1_with_parent, factor, ds_admin2_raked, merged_ds,
                 kr, launcher, cluster>>

BuildRakedDataset ==
  /\ pc = "step7"
  /\ ds_admin2_raked' = build_raked_dataset(ds_admin2_with_parent, raked_values)
  /\ pc' = "step8"
  /\ UNCHANGED <<envVars, io, outfile, ds_admin1, ds_admin2, hierarchy,
                 ds_admin2_with_parent, ds_admin2_without_parent,
                 ds_admin1_with_parent, factor, raked_values, merged_ds,
                 kr, launcher, cluster>>

MergeRakedAndUnraked ==
  /\ pc = "step8"
  /\ merged_ds' = merge_raked_and_unraked_admin2_dask(ds_admin2_raked,
                                                      ds_admin2_without_parent)
  /\ pc' = "step9"
  /\ UNCHANGED <<envVars, io, outfile, ds_admin1, ds_admin2, hierarchy,
                 ds_admin2_with_parent, ds_admin2_without_parent,
                 ds_admin1_with_parent, factor, raked_values, ds_admin2_raked,
                 kr, launcher, cluster>>

DropDataVariables ==
  /\ pc = "step9"
  /\ merged_ds' = drop_data_variables(merged_ds)
  /\ pc' = "step10"
  /\ UNCHANGED <<envVars, io, outfile, ds_admin1, ds_admin2, hierarchy,
                 ds_admin2_with_parent, ds_admin2_without_parent,
                 ds_admin1_with_parent, factor, raked_values, ds_admin2_raked,
                 kr, launcher, cluster>>

\* ------------------------------------------ save_raked_dataset_optimized
SAVE_MEASURE_MAP == [m \in MEASURES |-> IF m = "death" THEN "mortality" ELSE m]

\* faulty variant: the directory name is built with get_predicted_ds's
\* MEASURE_MAP, which sends death and yll to one name
OutputPathPredictedMeasureMap(cause, scenario, measure, draw) ==
  <<"output", cause, PREDICTED_MEASURE_MAP[measure], SCENARIO_MAP[scenario],
    IF cause = "malaria" THEN "_dah_scenario_Baseline_raked" ELSE "_raked", draw>>

\* the output file of a run: directory name parts and file name part
OutputPath(cause, scenario, measure, draw) ==
  <<"output", cause, SAVE_MEASURE_MAP[measure], SCENARIO_MAP[scenario],
    IF cause = "malaria" THEN "_dah_scenario_Baseline_raked" ELSE "_raked", draw>>

\* out_dir.mkdir, chmod, subdirectory mkdir
SaveMakeDirs ==
  /\ pc = "step10"
  /\ io' = io \cup {"output_mkdir"}
  /\ pc' = "save_dirs"
  /\ UNCHANGED <<envVars, outfile, dataVars, kr, launcher, cluster>>

\* merged_ds.to_netcdf(outfile, ...) opens the file at its final path for
\* writing
SaveOpenOutfile ==
  /\ pc = "save_dirs"
  /\ io' = io \cup {"outfile_create"}
  /\ outfile' = "partial"
  /\ pc' = "save_writing"
  /\ UNCHANGED <<envVars, dataVars, kr, launcher, cluster>>

\* compute=True: the lazy pipeline is evaluated and written while the file
\* is open; the write finishes, or the process dies with the file in place
SaveWrite ==
  /\ pc = "save_writing"
  /\ \/ outfile' = "complete" /\ pc' = "save_written"
     \/ outfile' = outfile /\ pc' = "error"
  /\ UNCHANGED <<envVars, io, dataVars, kr, launcher, cluster>>

\* os.chmod(outfile, 0o775) and the final print
SaveChmod ==
  /\ pc = "save_written"
  /\ io' = io \cup {"outfile_chmod"}
  /\ pc' = "done"
  /\ UNCHANGED <<envVars, outfile, dataVars, kr, launcher, cluster>>

RunNext ==
  \/ GetForcastedDs
  \/ GetPredictedDs
  \/ ImputeLocationIds
  \/ LoadInHierarchyDataset
  \/ SubsetAdmin1ToAdmin2Dims
  \/ SubsetDsToAdmin2Locations
  \/ AttachHierarchy
  \/ SplitDatasets
  \/ SumAndAlignAdmin2Totals
  \/ BroadcastFactorToAdmin2
  \/ BuildRakedDataset
  \/ MergeRakedAndUnraked
  \/ DropDataVariables
  \/ SaveMakeDirs
  \/ SaveOpenOutfile
  \/ SaveWrite
  \/ SaveChmod

\* -------------------------------------- Key Reconciliation on its own
ReconcileIds == OldIds \cup {44858, 11}

RunIdle ==
  /\ pc = "idle"
  /\ args = DefaultArgs
  /\ missing = {}
  /\ disk = [forecast |-> ExampleForecast, predicted |-> ExamplePrediction,
             hierarchy |-> HierarchyA]
  /\ io = {}
  /\ outfile = "absent"
  /\ ds_admin1 = NoDs /\ ds_admin2 = NoDs /\ hierarchy = NoDs
  /\ ds_admin2_with_parent = NoDs /\ ds_admin2_without_parent = NoDs
  /\ ds_admin1_with_parent = NoDs
  /\ factor = NoDs /\ raked_values = NoDs /\ ds_admin2_raked = NoDs /\ merged_ds = NoDs

InitReconcile ==
  /\ RunIdle
  /\ launcher = NoLauncher
  /\ cluster = NoCluster
  /\ \E I \in IdSets(ReconcileIds, MaxReconcileRows) : \E sh \in LabelShapes :
       \E v \in [Keys(I, sh[1], sh[2]) -> ReconcileVals] :
         LET t == MakeDs(I, sh[1], sh[2], v)
         IN kr = [input |-> t, prev |-> t, cur |-> t, passes |-> 0]

\* ds = impute_location_ids(ds), once more
KeyReconcile ==
  /\ kr.passes < MaxPasses
  /\ kr' = [kr EXCEPT !.prev = kr.cur, !.cur = impute_location_ids(kr.cur),
                      !.passes = kr.passes + 1]
  /\ UNCHANGED <<runVars, launcher, cluster>>

NextReconcile == KeyReconcile

SpecReconcile == InitReconcile /\ [][NextReconcile]_vars

\* ------------------------------------------------- raking_launcher.py
CAUSES_LIST == <<"malaria", "dengue">>
SCENARIOS_LIST == <<0, 75, 76>>
MEASURES_LIST == <<"death", "incidence", "yll", "yld">>
DRAWS_RANGE == 100

\* DRAWS, cut to the draws 0..MaxDraw
DRAWS_LIST == [i \in 1..(IF MaxDraw + 1 < DRAWS_RANGE THEN MaxDraw + 1 ELSE DRAWS_RANGE) |-> i - 1]

Combos == [cause : CAUSES, scenario : SCENARIOS, measure : MEASURES,
           draw : {DRAWS_LIST[i] : i \in 1..Len(DRAWS_LIST)}]

\* the path check_if_path_draw_exists builds
LauncherOutputName(cause, scenario, measure, draw) ==
  <<"output", cause, IF measure = "death" THEN "mortality" ELSE measure,
    SCENARIO_MAP[scenario],
    IF cause = "malaria" THEN "_dah_scenario_Baseline_raked" ELSE "_raked", draw>>

check_if_path_draw_exists(existing, cause, scenario, measure, draw) ==
  LauncherOutputName(cause, scenario, measure, draw) \in existing

\* the nested for loops: position <<cause, scenario, measure, draw>> indices
FirstPosition == <<1, 1, 1, 1>>
LoopDone == <<>>

NextPosition(p) ==
  IF p[4] < Len(DRAWS_LIST) THEN <<p[1], p[2], p[3], p[4] + 1>>
  ELSE IF p[3] < Len(MEASURES_LIST) THEN <<p[1], p[2], p[3] + 1, 1>>
  ELSE IF p[2] < Len(SCENARIOS_LIST) THEN <<p[1], p[2] + 1, 1, 1>>
  ELSE IF p[1] < Len(CAUSES_LIST) THEN <<p[1] + 1, 1, 1, 1>>
  ELSE LoopDone

TaskAt(p) == [cause |-> CAUSES_LIST[p[1]], scenario |-> SCENARIOS_LIST[p[2]],
              measure |-> MEASURES_LIST[p[3]], draw |-> DRAWS_LIST[p[4]]]

\* the subsets of S with at most n elements
RECURSIVE SubsetsUpTo(_, _)
SubsetsUpTo(S, n) ==
  IF n = 0 THEN {{}}
  ELSE LET smaller == SubsetsUpTo(S, n - 1)
       IN smaller \cup {D \cup {x} : D \in smaller, x \in S}

\* the launcher starts with the output files of some earlier runs in place
InitLauncher ==
  /\ RunIdle
  /\ kr = NoKr
  /\ cluster = NoCluster
  /\ \E done \in SubsetsUpTo(Combos, MaxExisting) :
       launcher = [phase |-> "loop",
                   existing |-> {OutputPath(c.cause, c.scenario, c.measure, c.draw) : c \in done},
                   next |-> FirstPosition, tasks |-> <<>>, added |-> <<>>,
                   bound |-> FALSE, submitted |-> {}]

\* one iteration of the innermost loop body: create_task and append
CreateTask ==
  /\ launcher.phase = "loop"
  /\ launcher.next # LoopDone
  /\ launcher' = [launcher EXCEPT !.tasks = Append(launcher.tasks, TaskAt(launcher.next)),
                                  !.next = NextPosition(launcher.next)]
  /\ UNCHANGED <<runVars, kr, cluster>>

\* if tasks: workflow.add_tasks(tasks)
AddTasks ==
  /\ launcher.phase = "loop"
  /\ launcher.next = LoopDone
  /\ launcher' = [launcher EXCEPT !.phase = "bind",
                                  !.added = IF launcher.tasks # <<>> THEN launcher.tasks
                                            ELSE launcher.added]
  /\ UNCHANGED <<runVars, kr, cluster>>

\* workflow.bind() in try/except: a failure is printed and the script goes on
Bind ==
  /\ launcher.phase = "bind"
  /\ \E ok \in BOOLEAN : launcher' = [launcher EXCEPT !.phase = "run", !.bound = ok]
  /\ UNCHANGED <<runVars, kr, cluster>>

\* workflow.run() in try/except: every added task is submitted, or the
\* submission fails
Run ==
  /\ launcher.phase = "run"
  /\ \E ok \in BOOLEAN :
       launcher' = [launcher EXCEPT !.phase = "done",
                                    !.submitted = IF ok /\ launcher.bound
                                                  THEN {launcher.added[i] : i \in 1..Len(launcher.added)}
                                                  ELSE {}]
  /\ UNCHANGED <<runVars, kr, cluster>>

NextLauncher == CreateTask \/ AddTasks \/ Bind \/ Run

SpecLauncher == InitLauncher /\ [][NextLauncher]_vars

\* --------------------------------------------- runs executing in parallel
\* workflow.run() hands every task to the cluster, where the tasks, one run
\* of raking_child.py each, execute side by side.  Two of them are followed
\* through their file-system calls.
Workers == {"w1", "w2"}

\* get_forcasted_ds: the values of scenario_and_measure_map
forecast_dataset_name ==
  [k \in scenario_and_measure_map |->
    CASE k = <<0, "death">> ->
           "20250709_first_sub_rcp45_climate_ref_100d_hiv_shocks_covid_all_s8_num"
      [] k = <<0, "incidence">> ->
           "20250719_rcp45_first_sub_climate_ref_scen0_agg_num"
      [] k = <<0, "yll">> ->
           "20250709_rcp45_first_sub_climate_ref_agg_num_restored_draws"
      [] k = <<0, "yld">> ->
           "20250719_rcp45_first_sub_climate_ref_scen0_agg_num"
      [] k = <<75, "death">> ->
           "20250709_first_sub_rcp26_first_sub_climate_vector_borne_diseases_100d_hiv_shocks_covid_all_s8_num"
      [] k = <<75, "incidence">> ->
           "20250719_rcp26_first_sub_climate_vector_borne_diseases_scen75_agg_num"
      [] k = <<75, "yll">> ->
           "20250709_rcp26_first_sub_climate_vector_borne_diseases_agg_num_restored_draws"
      [] k = <<75, "yld">> ->
           "20250719_rcp26_first_sub_climate_vector_borne_diseases_scen75_agg_num"
      [] k = <<76, "death">> ->
           "20250709_first_sub_rcp85_first_sub_climate_vector_borne_diseases_100d_hiv_shocks_covid_all_s8_num"
      [] k = <<76, "incidence">> ->
           "20250719_rcp85_first_sub_climate_vector_borne_diseases_scen76_agg_num"
      [] k = <<76, "yll">> ->
           "20250709_rcp85_first_sub_climate_vector_borne_diseases_agg_num_restored_draws"
      [] k = <<76, "yld">> ->
           "20250719_rcp85_first_sub_climate_vector_borne_diseases_scen76_agg_num"]

\* main_dir / dataset_name / CAUSE_MAP[cause], main_dir ending in the measure
ForecastPath(cause, scenario, measure) ==
  <<"future", measure, forecast_dataset_name[<<scenario, measure>>], CAUSE_MAP[cause]>>

\* get_predicted_ds: the draw folder under input/
PredictedDir(cause, scenario, measure) ==
  <<"input", cause, PREDICTED_MEASURE_MAP[measure], SCENARIO_MAP[scenario],
    IF cause = "malaria" THEN "_dah_scenario_Baseline" ELSE "">>

\* draw_folder_path / f"draw_{draw}.nc"
PredictedPath(cause, scenario, measure, draw) ==
  Append(PredictedDir(cause, scenario, measure), draw)

\* load_in_hierarchy_dataset: main_dir / file_name
HierarchyPath == <<"full_hierarchy_2023_lsae_1209.nc">>

\* save_raked_dataset_optimized: the two directories it creates
OutputRoot == <<"output">>
OutputDir(cause, scenario, measure) ==
  SubSeq(OutputPath(cause, scenario, measure, 0), 1, 5)

\* the files a run for combination c opens for reading
InputPaths(c) ==
  {ForecastPath(c.cause, c.scenario, c.measure),
   PredictedPath(c.cause, c.scenario, c.measure, c.draw),
   HierarchyPath}

WorkerCombo(w) == cluster.combo[w]

WorkerStep(w, from, to, ops) ==
  /\ cluster.pc[w] = from
  /\ cluster' = [cluster EXCEPT !.pc[w] = to,
                                !.log = cluster.log \cup {<<w, o[1], o[2]>> : o \in ops}]

\* two tasks of the launcher's cross-product, for distinct combinations; the
\* input files are in place and no output exists yet
InitCluster ==
  /\ RunIdle
  /\ kr = NoKr
  /\ launcher = NoLauncher
  /\ \E combo \in [Workers -> Combos] :
       /\ \A w1 \in Workers : \A w2 \in Workers : combo[w1] = combo[w2] => w1 = w2
       /\ cluster = [combo |-> combo, pc |-> [w \in Workers |-> "start"],
                     dirs |-> {}, files |-> <<>>, log |-> {}]

\* file_path.exists() and xr.open_dataset(file_path)
WorkerGetForcastedDs(w) ==
  /\ WorkerStep(w, "start", "forecast",
                {<<"read", ForecastPath(WorkerCombo(w).cause, WorkerCombo(w).scenario,
                                        WorkerCombo(w).measure)>>})
  /\ UNCHANGED <<runVars, kr, launcher>>

\* draw_folder_path.exists() and xr.open_dataset(..., chunks={})
WorkerGetPredictedDs(w) ==
  /\ WorkerStep(w, "forecast", "predicted",
                {<<"read", PredictedPath(WorkerCombo(w).cause, WorkerCombo(w).scenario,
                                         WorkerCombo(w).measure, WorkerCombo(w).draw)>>})
  /\ UNCHANGED <<runVars, kr, launcher>>

WorkerLoadInHierarchyDataset(w) ==
  /\ WorkerStep(w, "predicted", "hierarchy", {<<"read", HierarchyPath>>})
  /\ UNCHANGED <<runVars, kr, launcher>>

\* out_dir.mkdir(parents=True, exist_ok=True), chmod, and the same for the
\* sub-directory: an existing directory is left as it is
WorkerSaveMakeDirs(w) ==
  /\ cluster.pc[w] = "hierarchy"
  /\ cluster' = [cluster EXCEPT
       !.pc[w] = "save_dirs",
       !.dirs = cluster.dirs \cup
                  {OutputRoot, OutputDir(WorkerCombo(w).cause, WorkerCombo(w).scenario,
                                         WorkerCombo(w).measure)}]
  /\ UNCHANGED <<runVars, kr, launcher>>

\* to_netcdf opens outfile at its final path, truncating what is there
WorkerSaveOpenOutfile(w) ==
  LET outfile_w == OutputPath(WorkerCombo(w).cause, WorkerCombo(w).scenario,
                              WorkerCombo(w).measure, WorkerCombo(w).draw)
  IN /\ cluster.pc[w] = "save_dirs"
     /\ cluster' = [cluster EXCEPT
          !.pc[w] = "save_writing",
          !.files = (outfile_w :> "partial") @@ cluster.files,
          !.log = cluster.log \cup {<<w, "write", outfile_w>>}]
     /\ UNCHANGED <<runVars, kr, launcher>>

\* compute=True: the lazily opened predicted file is read and the result
\* written; the write finishes or the process dies
WorkerSaveWrite(w) ==
  LET outfile_w == OutputPath(WorkerCombo(w).cause, WorkerCombo(w).scenario,
                              WorkerCombo(w).measure, WorkerCombo(w).draw)
      predicted_w == PredictedPath(WorkerCombo(w).cause, WorkerCombo(w).scenario,
                                   WorkerCombo(w).measure, WorkerCombo(w).draw)
  IN /\ cluster.pc[w] = "save_writing"
     /\ \E ok \in BOOLEAN :
          cluster' = [cluster EXCEPT
            !.pc[w] = IF ok THEN "save_written" ELSE "error",
            !.files = IF ok THEN (outfile_w :> "complete") @@ cluster.files
                      ELSE cluster.files,
            !.log = cluster.log \cup {<<w, "read", predicted_w>>, <<w, "write", outfile_w>>}]
     /\ UNCHANGED <<runVars, kr, launcher>>

\* os.chmod(outfile, 0o775)
WorkerSaveChmod(w) ==
  /\ WorkerStep(w, "save_written", "done",
                {<<"write", OutputPath(WorkerCombo(w).cause, WorkerCombo(w).scenario,
                                       WorkerCombo(w).measure, WorkerCombo(w).draw)>>})
  /\ UNCHANGED <<runVars, kr, launcher>>

NextCluster ==
  \E w \in Workers :
    \/ WorkerGetForcastedDs(w)
    \/ WorkerGetPredictedDs(w)
    \/ WorkerLoadInHierarchyDataset(w)
    \/ WorkerSaveMakeDirs(w)
    \/ WorkerSaveOpenOutfile(w)
    \/ WorkerSaveWrite(w)
    \/ WorkerSaveChmod(w)

SpecCluster == InitCluster /\ [][NextCluster]_vars

\* ------------------------------------------------------ specifications
Next == RunNext

Spec == Init /\ [][Next]_vars

\* ------------------------------------------------------------ claims
PcOrder == <<"start", "forecast", "predicted", "imputed", "hierarchy", "step2",
             "step3", "step4", "step5", "step6", "step7", "step8", "step9",
             "step10", "save_dirs", "save_writing", "save_written", "done">>

PcIndex(p) == CHOOSE n \in 1..Len(PcOrder) : PcOrder[n] = p

\* the run is at or past position p (a failed run keeps the data it had one
\* step earlier, where the same formulas were evaluated)
Reached(p) == pc \notin {"error", "idle"} /\ PcIndex(pc) >= PcIndex(p)

Children(P) == {i \in ds_admin2_with_parent.ids : ds_admin2_with_parent.parent_id[i] = P}

ChildrenSum(P, a, s) ==
  SumOver(Children(P), [i \in Children(P) |-> ds_admin2_with_parent.val[<<i, a, s>>]])

RakedSum(P, a, s) ==
  RatSumOver(Children(P), [i \in Children(P) |-> raked_values.val[<<i, a, s>>]])

\* C1: conservation.  Once the factor has been broadcast, for every coarse
\* id kept by the coarse split and every (age, sex) combination where the
\* coarse value and the sum of its children's fine values are both non-zero,
\* the raked values of the children sum to the coarse value exactly.
C1_Conservation ==
  Reached("step7") =>
    \A P \in ds_admin1_with_parent.ids :
      \A a \in ds_admin1_with_parent.ages :
        \A s \in ds_admin1_with_parent.sexes :
          (ds_admin1_with_parent.val[<<P, a, s>>] # 0 /\ ChildrenSum(P, a, s) # 0)
            => RatEq(RakedSum(P, a, s), Rat(ds_admin1_with_parent.val[<<P, a, s>>]))

\* a parent with two children, both non-zero, raked by a factor that is not
\* an integer
C1_Witness ==
  /\ Reached("step7")
  /\ \E P \in ds_admin1_with_parent.ids :
       \E a \in ds_admin1_with_parent.ages :
         \E s \in ds_admin1_with_parent.sexes :
           /\ Cardinality(Children(P)) >= 2
           /\ \A i \in Children(P) : ds_admin2_with_parent.val[<<i, a, s>>] # 0
           /\ factor.val[<<P, a, s>>] = <<3, 2>>
           /\ \A i \in Children(P) : raked_values.val[<<i, a, s>>] = <<3, 2>>

\* C2: identity on degenerate groups.  Where the children sum to zero or the
\* coarse value is zero the factor is exactly 1, and every child of that
\* parent keeps its original value, in the raked values and in the merged
\* output.
C2_IdentityOnDegenerateGroups ==
  /\ Reached("step6") =>
       \A P \in factor.ids : \A a \in factor.ages : \A s \in factor.sexes :
         (ChildrenSum(P, a, s) = 0 \/ ds_admin1_with_parent.val[<<P, a, s>>] = 0)
           => factor.val[<<P, a, s>>] = One
  /\ Reached("step7") =>
       \A P \in factor.ids : \A a \in factor.ages : \A s \in factor.sexes :
         (ChildrenSum(P, a, s) = 0 \/ ds_admin1_with_parent.val[<<P, a, s>>] = 0)
           => \A i \in Children(P) :
                raked_values.val[<<i, a, s>>] = Rat(ds_admin2_with_parent.val[<<i, a, s>>])
  /\ Reached("step9") =>
       \A P \in factor.ids : \A a \in factor.ages : \A s \in factor.sexes :
         (ChildrenSum(P, a, s) = 0 \/ ds_admin1_with_parent.val[<<P, a, s>>] = 0)
           => \A i \in Children(P) :
                merged_ds.val[<<i, a, s>>] = Rat(ds_admin2_with_parent.val[<<i, a, s>>])

\* one parent with a zero coarse value over non-zero children, another with
\* a non-zero coarse value over children that sum to zero
C2_Witness ==
  /\ Reached("step9")
  /\ \E P \in factor.ids : \E a \in factor.ages : \E s \in factor.sexes :
       /\ ds_admin1_with_parent.val[<<P, a, s>>] = 0
       /\ ChildrenSum(P, a, s) # 0
  /\ \E P \in factor.ids : \E a \in factor.ages : \E s \in factor.sexes :
       /\ ds_admin1_with_parent.val[<<P, a, s>>] # 0
       /\ Children(P) # {}
       /\ ChildrenSum(P, a, s) = 0

\* C3 as stated: the merged output has exactly the entity ids of the input
\* fine-level table.
C3_EntitySetOfInput ==
  Reached("step9") => merged_ds.ids = disk.predicted.ids

\* C3 amended: the merged output has exactly the entity ids of the fine
\* table that enters the split, which are the ids of the reconciled input
\* that the level-5 hierarchy knows.
C3_EntitySetPreserved ==
  Reached("step9") =>
    /\ merged_ds.ids = ds_admin2.ids
    /\ merged_ds.ids = impute_location_ids(disk.predicted).ids \cap hierarchy.ids

\* a merge of a non-empty raked partition and a non-empty partition without
\* parent, from an input one id of which the run dropped
C3_Witness ==
  /\ Reached("step9")
  /\ ds_admin2_raked.ids # {}
  /\ ds_admin2_without_parent.ids # {}
  /\ disk.predicted.ids \ merged_ds.ids # {}

\* C4: no-parent passthrough.  A fine entity whose parent_id is no id of the
\* coarse table goes to the without-parent partition, gets no factor, and is
\* in the merged output with its original value in every (age, sex) cell.
C4_NoParentPassthrough ==
  /\ Reached("step5") =>
       \A i \in ds_admin2.ids :
         ds_admin2.parent_id[i] \notin ds_admin1.ids
           => /\ i \in ds_admin2_without_parent.ids
              /\ i \notin ds_admin2_with_parent.ids
  /\ Reached("step7") =>
       \A i \in ds_admin2.ids :
         ds_admin2.parent_id[i] \notin ds_admin1.ids
           => /\ i \notin raked_values.ids
              /\ ds_admin2.parent_id[i] \notin factor.ids
  /\ Reached("step9") =>
       \A i \in ds_admin2.ids :
         ds_admin2.parent_id[i] \notin ds_admin1.ids
           => /\ i \in merged_ds.ids
              /\ \A a \in ds_admin2.ages : \A s \in ds_admin2.sexes :
                   /\ merged_ds.val[<<i, a, s>>] = Rat(ds_admin2.val[<<i, a, s>>])
                   /\ ds_admin2.val[<<i, a, s>>]
                        = impute_location_ids(disk.predicted).val[<<i, a, s>>]

\* an orphan with a non-zero value merged next to a sibling partition that
\* was raked by a factor other than 1
C4_Witness ==
  /\ Reached("step9")
  /\ \E i \in ds_admin2.ids : \E a \in ds_admin2.ages : \E s \in ds_admin2.sexes :
       /\ ds_admin2.parent_id[i] \notin ds_admin1.ids
       /\ ds_admin2.val[<<i, a, s>>] # 0
       /\ merged_ds.val[<<i, a, s>>] = Rat(ds_admin2.val[<<i, a, s>>])
  /\ \E k \in DOMAIN factor.val : factor.val[k] # One

\* what Key Reconciliation is to produce from table t: the old ids present
\* are summed, cell by cell, into their new id (created if absent) and removed
Present(t) == OldIds \cap t.ids

NewIds(t) == {IMPUTE_MAP(o) : o \in Present(t)}

Reconciled(t) ==
  LET I == (t.ids \ OldIds) \cup NewIds(t)
  IN MakeDs(I, t.ages, t.sexes,
            [k \in Keys(I, t.ages, t.sexes) |->
               (IF k[1] \in t.ids THEN t.val[k] ELSE 0)
               + SumOver({o \in Present(t) : IMPUTE_MAP(o) = k[1]},
                         [o \in Present(t) |-> t.val[<<o, k[2], k[3]>>]])])

\* every order in which the entries of IMPUTE_MAP can be processed
ImputeOrders ==
  {p \in [1..Len(IMPUTE_MAP_KEYS) -> OldIds] :
     \A i, j \in 1..Len(IMPUTE_MAP_KEYS) : i # j => p[i] # p[j]}

\* C5: after one pass of impute_location_ids no old id remains, the values
\* of every old id present were added cell by cell into 44858 (which takes
\* over the old id's values when it did not exist), all other rows are
\* unchanged, and every processing order of the map gives the same table.
C5_KeyReconciliationResult ==
  kr.passes = 1 =>
    /\ kr.cur.ids \cap OldIds = {}
    /\ kr.cur = Reconciled(kr.input)
    /\ \A order \in ImputeOrders : ImputeInOrder(kr.input, order) = kr.cur

\* two old ids with non-zero values and their new id all present at once
C5_Witness ==
  /\ kr.passes = 1
  /\ Cardinality(Present(kr.input)) >= 2
  /\ 44858 \in kr.input.ids
  /\ \A k \in DOMAIN kr.input.val : kr.input.val[k] # 0
  /\ \E k \in DOMAIN kr.cur.val : k[1] = 44858 /\ kr.cur.val[k] >= 3

\* C6: a second pass of impute_location_ids returns the table of the first.
C6_ReconciliationIdempotent ==
  kr.passes >= 2 => kr.cur = kr.prev

\* a second pass over a table whose first pass merged an old id into 44858
C6_Witness ==
  /\ kr.passes = 2
  /\ Present(kr.input) # {}
  /\ 44858 \in kr.input.ids
  /\ kr.prev # kr.input
  /\ \E k \in DOMAIN kr.input.val : k[1] \in OldIds /\ kr.input.val[k] # 0

\* C7: the output file is absent or complete in every state of a run, and a
\* failed run leaves none.
C7_NoPartialOutput ==
  /\ outfile \in {"absent", "complete"}
  /\ pc = "error" => outfile = "absent"

\* C8: no task is created, added or submitted for a combination whose
\* output file exists.
C8_ExistingOutputsSkipped ==
  /\ \A n \in 1..Len(launcher.tasks) :
       LET t == launcher.tasks[n]
       IN ~check_if_path_draw_exists(launcher.existing, t.cause, t.scenario,
                                     t.measure, t.draw)
  /\ \A t \in launcher.submitted :
       ~check_if_path_draw_exists(launcher.existing, t.cause, t.scenario,
                                  t.measure, t.draw)

\* C9: a run with an undocumented (scenario, measure) pair or an unknown
\* cause stops in an error at its first step: no file-system call was made,
\* no dataset was loaded and no output exists.
C9_ConfigErrorFailsFast ==
  ~ValidConfig(args) =>
    /\ pc \in {"start", "error"}
    /\ io = {}
    /\ outfile = "absent"
    /\ ds_admin1 = NoDs /\ ds_admin2 = NoDs /\ hierarchy = NoDs

\* a failed run with a documented (scenario, measure) pair and the cause zika
C9_Witness ==
  /\ pc = "error"
  /\ args.cause \notin CAUSES
  /\ <<args.scenario, args.measure>> \in scenario_and_measure_map
  /\ "forecast" \notin missing

\* C10: after subset_admin1_to_admin2_dims the coarse and the fine table
\* have the same age labels and the same sex labels, and no raked fine value
\* is undefined.
C10_DimensionAlignment ==
  /\ Reached("step2") =>
       /\ ds_admin1.ages = ds_admin2.ages
       /\ ds_admin1.sexes = ds_admin2.sexes
  /\ Reached("step8") =>
       \A k \in DOMAIN ds_admin2_raked.val : ~IsNaN(ds_admin2_raked.val[k])

\* the factor assigned to the parent of fine row i in combination (a, s), or
\* NaN where the factor table has no such entry
FactorOfParent(i, a, s) ==
  LET P == ds_admin2_with_parent.parent_id[i]
  IN IF <<P, a, s>> \in DOMAIN factor.val THEN factor.val[<<P, a, s>>] ELSE NaN

\* C11: the factor broadcast is a join on (parent_id, age, sex).  Every row
\* (entity, age, sex) of the with-parent partition has a raked value, equal
\* to its original value times the factor of its own parent in the same
\* (age, sex) combination, first in raked_values and then in the dataset
\* build_raked_dataset returns; build_raked_dataset keeps the entity ids,
\* the labels and each entity's parent_id.
C11_FactorBroadcastJoin ==
  /\ Reached("step7") =>
       \A k \in DOMAIN ds_admin2_with_parent.val :
         /\ k \in DOMAIN raked_values.val
         /\ ~IsNaN(FactorOfParent(k[1], k[2], k[3]))
         /\ raked_values.val[k] =
              RatMul(Rat(ds_admin2_with_parent.val[k]), FactorOfParent(k[1], k[2], k[3]))
  /\ Reached("step8") =>
       /\ ds_admin2_raked.ids = ds_admin2_with_parent.ids
       /\ ds_admin2_raked.ages = ds_admin2_with_parent.ages
       /\ ds_admin2_raked.sexes = ds_admin2_with_parent.sexes
       /\ ds_admin2_raked.parent_id = ds_admin2_with_parent.parent_id
       /\ \A k \in DOMAIN ds_admin2_with_parent.val :
            ds_admin2_raked.val[k] =
              RatMul(Rat(ds_admin2_with_parent.val[k]), FactorOfParent(k[1], k[2], k[3]))

\* the same statement on the rows whose (age, sex) combination the factor
\* table has: it holds there, and so does the rest of build_raked_dataset
C11_JoinOnFactorLabels ==
  /\ Reached("step7") =>
       /\ DOMAIN raked_values.val =
            {k \in DOMAIN ds_admin2_with_parent.val :
               <<ds_admin2_with_parent.parent_id[k[1]], k[2], k[3]>> \in DOMAIN factor.val}
       /\ \A k \in DOMAIN raked_values.val :
            raked_values.val[k] =
              RatMul(Rat(ds_admin2_with_parent.val[k]), FactorOfParent(k[1], k[2], k[3]))
  /\ Reached("step8") =>
       /\ ds_admin2_raked.ids = ds_admin2_with_parent.ids
       /\ ds_admin2_raked.parent_id = ds_admin2_with_parent.parent_id
       /\ \A k \in DOMAIN raked_values.val : ds_admin2_raked.val[k] = raked_values.val[k]

\* the coarse entities of the table split_ds_admin1 received that are the
\* parent of no row of the fine table
ChildlessCoarse ==
  {P \in ds_admin1.ids : \A i \in ds_admin2.ids : ds_admin2.parent_id[i] # P}

\* C12: partition invariant.  After the split the with-parent and the
\* without-parent partition have disjoint entity-id sets whose union is the
\* id set of the fine table, each keeps the value and parent_id of its rows,
\* the restricted coarse table has exactly the parent_id values of the
\* with-parent partition as its ids, a coarse entity without children is
\* not among them, and the split step itself never ends the run.
C12_PartitionInvariant ==
  /\ [](Reached("step5") =>
          /\ ds_admin2_with_parent.ids \cap ds_admin2_without_parent.ids = {}
          /\ ds_admin2_with_parent.ids \cup ds_admin2_without_parent.ids = ds_admin2.ids
          /\ \A i \in ds_admin2_with_parent.ids :
               ds_admin2_with_parent.parent_id[i] = ds_admin2.parent_id[i]
          /\ \A i \in ds_admin2_without_parent.ids :
               ds_admin2_without_parent.parent_id[i] = ds_admin2.parent_id[i]
          /\ ds_admin1_with_parent.ids = ParentIds(ds_admin2_with_parent)
          /\ ds_admin1_with_parent.ids \cap ChildlessCoarse = {})
  /\ [][pc = "step4" => pc' = "step5"]_vars

\* a run over a coarse table with a childless entity and a fine table with
\* two children of another coarse entity and an orphan, run to the end
C12_Witness ==
  /\ pc = "done"
  /\ ChildlessCoarse # {}
  /\ Cardinality(ds_admin2_with_parent.ids) >= 2
  /\ ds_admin2_without_parent.ids # {}
  /\ ds_admin1_with_parent.ids # {}

\* the paths worker w has read, and the paths it has written
ReadBy(w) == {e[3] : e \in {x \in cluster.log : x[1] = w /\ x[2] = "read"}}
WrittenBy(w) == {e[3] : e \in {x \in cluster.log : x[1] = w /\ x[2] = "write"}}

\* the output path of the run worker w executes
WorkerOutfile(w) ==
  OutputPath(WorkerCombo(w).cause, WorkerCombo(w).scenario,
             WorkerCombo(w).measure, WorkerCombo(w).draw)

\* C13: runs do not collide.  For any two runs for different combinations
\* of the launcher's cross-product the output paths differ and the output
\* path of one is no input path of either; in every interleaving of the two
\* runs, no file one run has written was written or read by the other, and
\* a file whose write has finished stays complete.
C13_RunsDoNotCollide ==
  /\ \A w1 \in Workers : \A w2 \in Workers :
       /\ WorkerOutfile(w1) = WorkerOutfile(w2) => w1 = w2
       /\ WorkerOutfile(w1) \notin InputPaths(WorkerCombo(w2))
  /\ \A w1 \in Workers : \A w2 \in Workers \ {w1} :
       WrittenBy(w1) \cap (WrittenBy(w2) \cup ReadBy(w2)) = {}
  /\ \A w \in Workers :
       cluster.pc[w] \in {"save_written", "done"} =>
         cluster.files[WorkerOutfile(w)] = "complete"

\* two finished runs for death and yll of one cause, scenario and draw: they
\* read the same predicted file and wrote into two output directories
C13_Witness ==
  /\ \A w \in Workers : cluster.pc[w] = "done"
  /\ \E w1 \in Workers : \E w2 \in Workers :
       /\ WorkerCombo(w1).measure = "death" /\ WorkerCombo(w2).measure = "yll"
       /\ WorkerCombo(w1).cause = WorkerCombo(w2).cause
       /\ WorkerCombo(w1).scenario = WorkerCombo(w2).scenario
       /\ WorkerCombo(w1).draw = WorkerCombo(w2).draw
       /\ ReadBy(w1) \cap ReadBy(w2) # {HierarchyPath}
       /\ WrittenBy(w1) # {} /\ WrittenBy(w2) # {}
       /\ Cardinality(DOMAIN cluster.files) = 2

====
